---------------------------- MODULE Spec2Model ----------------------------
(***************************************************************************)
(* A model of src/app.py: a Flask + SQLAlchemy (SQLite) shop backend with  *)
(* three resources -- products, orders (with order items) and cart items.  *)
(*                                                                         *)
(* The tables are the state.  Every request handler is one action in the   *)
(* one-request-at-a-time specifications (Spec, SpecOrders); in              *)
(* SpecCartThreads and SpecOrderThreads the handlers with more than one    *)
(* storage step (add_to_cart, remove_from_cart, create_order) are split at *)
(* their storage statements, because the development server serves         *)
(* requests on several threads, each with its own session, and a commit    *)
(* makes a thread's writes visible to the rest.                            *)
(*                                                                         *)
(* Prices are integers (cents); only the columns the handlers compute with *)
(* are kept: name, description, category and in_stock are copied by the    *)
(* handlers and never read by any cart or order computation.               *)
(***************************************************************************)
EXTENDS Integers, Sequences, FiniteSets, TLC

(* ------------------------------ bounds -------------------------------- *)

\* largest number of rows of the orders table
MaxOrders == 1
\* largest quantity a cart row may reach
MaxCartQty == 3

\* the ids the products table may hand out
ProductIdPool == {1, 2}
\* the ids the cart_items table may hand out
CartIdPool == {1, 2}
\* the user ids of the URLs and bodies; "" is the falsy user_id of a body
Users == {"u1", "u2"}
\* the prices a product body may carry (besides leaving the key out: 0.0)
Prices == {2}
\* the quantities a cart body may carry (besides leaving the key out)
CartQuantities == {2}
\* the quantities an order entry may carry (besides leaving the key out)
OrderQuantities == {0, 2}

VARIABLES
    products,     \* table products: id -> [price]
    orders,       \* table orders, in id order: <<[user_id, status, total_price]>>
    order_items,  \* table order_items, in id order: <<[order_id, product_id, quantity]>>
    cart_items,   \* table cart_items: {[id, user_id, product_id, quantity]}
    response,     \* the last request served and the response it got
    threads,      \* each server thread's request in flight
    seq_added     \* history: per cart row that only adds answered 200 have
                  \* touched since its insert, the sum of their quantities

vars == <<products, orders, order_items, cart_items, response, threads, seq_added>>

(* ------------------------------ helpers ------------------------------- *)

\* dict.get(key, default)
Get(d, key, default) == IF key \in DOMAIN d THEN d[key] ELSE default

\* the id SQLite gives a new row of a table declared INTEGER PRIMARY KEY
\* without AUTOINCREMENT: one more than the largest id now in the table
NewId(ids) == IF ids = {} THEN 1 ELSE 1 + CHOOSE m \in ids : \A x \in ids : x <= m

\* the rows of a query in table (id) order
RECURSIVE ById(_)
ById(rows) ==
    IF rows = {} THEN <<>>
    ELSE LET r == CHOOSE x \in rows : \A y \in rows : x.id <= y.id
         IN  <<r>> \o ById(rows \ {r})

\* item.product is None for some item: item.product.price raises AttributeError
Dangling(items, prods) == \E i \in 1..Len(items) : items[i].product_id \notin DOMAIN prods

\* total = 0.0; for item in items: total += item.product.price * item.quantity
RECURSIVE SumLines(_, _)
SumLines(items, prods) ==
    IF items = <<>> THEN 0
    ELSE prods[Head(items).product_id].price * Head(items).quantity
         + SumLines(Tail(items), prods)

\* order.items: the order_items rows whose order_id is the order's id
ItemsOf(order_id, items) == SelectSeq(items, LAMBDA it : it.order_id = order_id)

\* variant: the sum of the prices, every quantity taken as 1 (C3 tells it apart)
calculate_order_price_NoQuantity(order_id, items, prods) ==
    SumLines([i \in 1..Len(ItemsOf(order_id, items)) |->
                 [ItemsOf(order_id, items)[i] EXCEPT !.quantity = 1]], prods)

calculate_order_price(order_id, items, prods) == SumLines(ItemsOf(order_id, items), prods)

calculate_cart_total(rows, prods) == SumLines(rows, prods)

\* CartItem.query.filter_by(user_id=user_id).all()
CartOf(cart, user_id) == ById({c \in cart : c.user_id = user_id})

\* CartItem.query.filter_by(user_id=..., product_id=...): the matching rows
Matching(cart, user_id, product_id) ==
    {c \in cart : c.user_id = user_id /\ c.product_id = product_id}

\* .first(): SQLite scans the table in id order
First(rows) == CHOOSE r \in rows : \A y \in rows : r.id <= y.id

\* the body of a cart response, or the unhandled AttributeError (500) of a
\* cart row whose product is gone
CartResponse(op, user_id, cart, prods) ==
    LET rows == CartOf(cart, user_id)
    IN  IF Dangling(rows, prods)
        THEN [op |-> op, status |-> 500]
        ELSE [op |-> op, status |-> 200,
              cart |-> [i \in 1..Len(rows) |->
                          [product_id |-> rows[i].product_id,
                           quantity   |-> rows[i].quantity,
                           price_each |-> prods[rows[i].product_id].price]],
              total_price |-> calculate_cart_total(rows, prods)]

(* ------------------------------ inputs -------------------------------- *)

ProductBodies == [name : {"n"}] \cup [name : {"n"}, price : Prices]

\* the product ids of the URLs and bodies; 0 is an id no product ever has
ProductIds == {0} \cup ProductIdPool

CartBodies ==
    [product_id : ProductIds] \cup [product_id : ProductIds, quantity : CartQuantities]
        \cup [quantity : CartQuantities]

\* the entries of an order's list: a product the table holds, held or will hold
OrderEntries ==
    [product_id : ProductIdPool]
        \cup [product_id : ProductIdPool, quantity : OrderQuantities]

OrderLists ==
    {<<>>} \cup {<<a>> : a \in OrderEntries} \cup {<<a, b>> : a, b \in OrderEntries}

\* the users who place orders
OrderUsers == {"u1"}

\* every list of a user, and the bodies the handler refuses: no user_id, no list
OrderBodies ==
    [user_id : OrderUsers, products : OrderLists]
        \cup [user_id : {""}, products : {<<>>, <<[product_id |-> 1]>>}]

(* ------------------------------ state --------------------------------- *)

Idle == [pc |-> "idle"]

Init ==
    /\ products = [p \in {} |-> [price |-> 0]]
    /\ orders = <<>>
    /\ order_items = <<>>
    /\ cart_items = {}
    /\ response = [op |-> "none", status |-> 0]
    /\ threads = [t \in {1, 2} |-> Idle]
    /\ seq_added = {}

(* ------------------------------ products ------------------------------ *)

create_product(data) ==
    LET id == NewId(DOMAIN products)
    IN  /\ id \in ProductIdPool
        /\ products' = [p \in DOMAIN products \cup {id} |->
                           IF p = id THEN [price |-> Get(data, "price", 0)]
                           ELSE products[p]]
        /\ response' = [op |-> "create_product", status |-> 201]
        /\ UNCHANGED <<orders, order_items, cart_items, threads, seq_added>>

\* variant: the update also refreshes the total_price of the stored orders
\* (C7 tells it apart)
update_product_Refresh(product_id, data) ==
    IF product_id \notin DOMAIN products
    THEN /\ response' = [op |-> "update_product", status |-> 404]
         /\ UNCHANGED <<products, orders, order_items, cart_items, threads, seq_added>>
    ELSE LET price == Get(data, "price", products[product_id].price)
         IN  /\ products' = [products EXCEPT ![product_id].price = price]
             /\ orders' = [o \in 1..Len(orders) |->
                             IF Dangling(ItemsOf(o, order_items), products')
                             THEN orders[o]
                             ELSE [orders[o] EXCEPT !.total_price =
                                      calculate_order_price(o, order_items, products')]]
             /\ response' = [op |-> "update_product", status |-> 200]
             /\ UNCHANGED <<order_items, cart_items, threads, seq_added>>

update_product(product_id, data) ==
    IF product_id \notin DOMAIN products
    THEN /\ response' = [op |-> "update_product", status |-> 404]
         /\ UNCHANGED <<products, orders, order_items, cart_items, threads, seq_added>>
    ELSE LET price == Get(data, "price", products[product_id].price)
         IN  /\ products' = [products EXCEPT ![product_id].price = price]
             /\ response' = [op |-> "update_product", status |-> 200]
             /\ UNCHANGED <<orders, order_items, cart_items, threads, seq_added>>

delete_product(product_id) ==
    IF product_id \notin DOMAIN products
    THEN /\ response' = [op |-> "delete_product", status |-> 404]
         /\ UNCHANGED <<products, orders, order_items, cart_items, threads, seq_added>>
    ELSE /\ products' = [p \in DOMAIN products \ {product_id} |-> products[p]]
         /\ response' = [op |-> "delete_product", status |-> 200]
         /\ UNCHANGED <<orders, order_items, cart_items, threads, seq_added>>

(* ------------------------------ orders -------------------------------- *)

\* variant: the loop stops at the first entry whose product does not exist
\* (C4 tells it apart)
OrderItemsFor_StopAtMissing(order_id, product_list, prods) ==
    LET n == CHOOSE k \in 0..Len(product_list) :
                 /\ \A i \in 1..k : product_list[i].product_id \in DOMAIN prods
                 /\ k < Len(product_list) => product_list[k + 1].product_id \notin DOMAIN prods
    IN  [i \in 1..n |->
            [order_id   |-> order_id,
             product_id |-> product_list[i].product_id,
             quantity   |-> Get(product_list[i], "quantity", 1)]]

\* for item in product_list: the OrderItem of every entry whose product exists
OrderItemsFor(order_id, product_list, prods) ==
    LET found == SelectSeq(product_list, LAMBDA item : item.product_id \in DOMAIN prods)
    IN  [i \in 1..Len(found) |->
            [order_id   |-> order_id,
             product_id |-> found[i].product_id,
             quantity   |-> Get(found[i], "quantity", 1)]]

\* the 'products' list of an order in a response
OrderProducts(order_id, items, prods) ==
    LET its == ItemsOf(order_id, items)
    IN  [i \in 1..Len(its) |->
            [product_id    |-> its[i].product_id,
             quantity      |-> its[i].quantity,
             product_price |-> prods[its[i].product_id].price]]

create_order(data) ==
    IF data.user_id = "" \/ data.products = <<>>
    THEN /\ response' = [op |-> "create_order", status |-> 400]
         /\ UNCHANGED <<products, orders, order_items, cart_items, threads, seq_added>>
    ELSE LET order_id == Len(orders) + 1
             items    == order_items \o OrderItemsFor(order_id, data.products, products)
             total    == calculate_order_price(order_id, items, products)
         IN  /\ Len(orders) < MaxOrders
             /\ order_items' = items
             /\ orders' = Append(orders, [user_id |-> data.user_id, status |-> "pending",
                                          total_price |-> total])
             /\ response' = [op |-> "create_order", status |-> 201,
                             order_id |-> order_id, user_id |-> data.user_id,
                             order_status |-> "pending", total_price |-> total,
                             products |-> OrderProducts(order_id, items, products)]
             /\ UNCHANGED <<products, cart_items, threads, seq_added>>

get_orders_by_user(user_id) ==
    LET mine == {o \in 1..Len(orders) : orders[o].user_id = user_id}
    IN  /\ response' =
              IF \E o \in mine : Dangling(ItemsOf(o, order_items), products)
              THEN [op |-> "get_orders_by_user", status |-> 500]
              ELSE [op |-> "get_orders_by_user", status |-> 200,
                    orders |-> [o \in mine |->
                                  [total_price |-> orders[o].total_price,
                                   order_status |-> orders[o].status,
                                   products |-> OrderProducts(o, order_items, products)]]]
        /\ UNCHANGED <<products, orders, order_items, cart_items, threads, seq_added>>

(* ------------------------------- cart --------------------------------- *)

\* variant: the quantity is replaced by the requested one (C2 tells it apart)
IncrementRow_Replace(cart, row, quantity) ==
    {IF c.id = row.id THEN [c EXCEPT !.quantity = quantity] ELSE c : c \in cart}

\* variant: UPDATE ... SET quantity = quantity + n, on the stored value instead
\* of the loaded one (C9 tells it apart)
IncrementRow_InPlace(cart, row, quantity) ==
    {IF c.id = row.id THEN [c EXCEPT !.quantity = @ + quantity] ELSE c : c \in cart}

\* cart_item.quantity += quantity; flushed as UPDATE ... WHERE id = cart_item.id
IncrementRow(cart, row, quantity) ==
    {IF c.id = row.id THEN [c EXCEPT !.quantity = row.quantity + quantity] ELSE c : c \in cart}

\* CartItem(user_id=..., product_id=..., quantity=...); db.session.add
InsertRow(cart, user_id, product_id, quantity) ==
    cart \cup {[id |-> NewId({c.id : c \in cart}), user_id |-> user_id,
                product_id |-> product_id, quantity |-> quantity]}

\* variant: a row is inserted whether or not the pair has one (C1 tells it apart)
CartAfterAdd_AlwaysInsert(cart, user_id, product_id, quantity) ==
    InsertRow(cart, user_id, product_id, quantity)

\* lines 294-302: increment the row of the pair, or insert one
CartAfterAdd(cart, user_id, product_id, quantity) ==
    LET found == Matching(cart, user_id, product_id)
    IN  IF found # {} THEN IncrementRow(cart, First(found), quantity)
        ELSE InsertRow(cart, user_id, product_id, quantity)

\* the history kept beside the handler: a row inserted by an add answered 200
\* starts a sequence, an add answered 200 on it adds its quantity, and an add
\* that is not answered 200 ends the sequence of its pair
SeqAfterAdd(cart, user_id, product_id, quantity, status) ==
    LET key == <<user_id, product_id>>
    IN  IF status # 200 THEN {h \in seq_added : h.key # key}
        ELSE IF Matching(cart, user_id, product_id) = {}
        THEN seq_added \cup {[key |-> key, sum |-> quantity]}
        ELSE {IF h.key = key THEN [h EXCEPT !.sum = @ + quantity] ELSE h : h \in seq_added}

add_to_cart(user_id, data) ==
    LET product_id == Get(data, "product_id", 0)
        quantity   == Get(data, "quantity", 1)
    IN  IF product_id = 0
        THEN /\ response' = [op |-> "add_to_cart", status |-> 400]
             /\ UNCHANGED <<products, orders, order_items, cart_items, threads, seq_added>>
        ELSE IF product_id \notin DOMAIN products
        THEN /\ response' = [op |-> "add_to_cart", status |-> 404]
             /\ UNCHANGED <<products, orders, order_items, cart_items, threads, seq_added>>
        ELSE LET cart == CartAfterAdd(cart_items, user_id, product_id, quantity)
                 resp == CartResponse("add_to_cart", user_id, cart, products)
             IN  /\ \A c \in cart : c.id \in CartIdPool /\ c.quantity <= MaxCartQty
                 /\ cart_items' = cart
                 /\ response' = resp
                 /\ seq_added' = SeqAfterAdd(cart_items, user_id, product_id, quantity,
                                             resp.status)
                 /\ UNCHANGED <<products, orders, order_items, threads>>

get_cart(user_id) ==
    /\ response' = CartResponse("get_cart", user_id, cart_items, products)
    /\ UNCHANGED <<products, orders, order_items, cart_items, threads, seq_added>>

\* variant: DELETE ... WHERE user_id = cart_item.user_id (C5 tells it apart)
DeleteRow_WholeCart(cart, row) == {c \in cart : c.user_id # row.user_id}

\* db.session.delete(cart_item): DELETE ... WHERE id = cart_item.id
DeleteRow(cart, row) == {c \in cart : c.id # row.id}

remove_from_cart(user_id, product_id) ==
    LET found == Matching(cart_items, user_id, product_id)
    IN  IF found = {}
        THEN /\ response' = [op |-> "remove_from_cart", status |-> 404]
             /\ UNCHANGED <<products, orders, order_items, cart_items, threads, seq_added>>
        ELSE LET cart == DeleteRow(cart_items, First(found))
             IN  /\ cart_items' = cart
                 /\ response' = CartResponse("remove_from_cart", user_id, cart, products)
                 /\ seq_added' = {s \in seq_added : s.key # <<user_id, product_id>>}
                 /\ UNCHANGED <<products, orders, order_items, threads>>

(* --------------------------- specifications --------------------------- *)

ProductRequest(bodies) ==
    \/ \E data \in bodies : create_product(data)
    \/ \E p \in ProductIdPool, data \in bodies : update_product(p, data)
    \/ \E p \in ProductIdPool : delete_product(p)

OrderRequest(bodies) ==
    \/ \E data \in bodies : create_order(data)
    \/ \E u \in Users : get_orders_by_user(u)

CartRequest ==
    \/ \E u \in Users, data \in CartBodies : add_to_cart(u, data)
    \/ \E u \in Users : get_cart(u)
    \/ \E u \in Users, p \in ProductIdPool : remove_from_cart(u, p)

\* one order of one product
OneOrderBody == {[user_id |-> "u1", products |-> <<[product_id |-> 1]>>]}

\* every handler, one request at a time: the catalogue, the carts of all users
\* over all products, and orders of one body
Next ==
    ProductRequest(ProductBodies) \/ CartRequest \/ OrderRequest(OneOrderBody)

Spec == Init /\ [][Next]_vars

\* the catalogue and the orders of all bodies, one request at a time
NextOrders == ProductRequest(ProductBodies) \/ OrderRequest(OrderBodies)

SpecOrders == Init /\ [][NextOrders]_vars

(* ------------------- requests on concurrent threads ------------------- *)
(* Each thread has its own session.  A handler is split where another      *)
(* thread's commit can fall between two of its storage statements: after   *)
(* its reads, after each commit.  What a thread has read stays in its      *)
(* record (the ORM's loaded objects) until its next commit expires it.     *)

Threads == {1, 2}

\* the user whose cart the concurrent requests work on
ThreadUsers == {"u1"}

SetThread(t, rec) == threads' = [threads EXCEPT ![t] = rec]

\* add_to_cart, lines 282-295: the body, the product and the cart row are read
add_read(t, user_id, data) ==
    LET product_id == Get(data, "product_id", 0)
        quantity   == Get(data, "quantity", 1)
        found      == Matching(cart_items, user_id, product_id)
    IN  /\ threads[t].pc = "idle"
        /\ IF product_id = 0
           THEN /\ response' = [op |-> "add_to_cart", status |-> 400]
                /\ UNCHANGED threads
           ELSE IF product_id \notin DOMAIN products
           THEN /\ response' = [op |-> "add_to_cart", status |-> 404]
                /\ UNCHANGED threads
           ELSE /\ SetThread(t, [pc |-> "add_commit", user_id |-> user_id,
                                 product_id |-> product_id, quantity |-> quantity,
                                 cart_item |-> IF found = {} THEN {} ELSE {First(found)}])
                /\ UNCHANGED response
        /\ UNCHANGED <<products, orders, order_items, cart_items, seq_added>>

\* add_to_cart, lines 296-302: the loaded row's quantity plus the request's is
\* written to the row of that id (StaleDataError when the row is gone), or a
\* row is inserted; then the commit
add_commit(t) ==
    LET me == threads[t]
    IN  /\ me.pc = "add_commit"
        /\ IF me.cart_item # {} /\ \A c \in cart_items : \A r \in me.cart_item : c.id # r.id
           THEN /\ response' = [op |-> "add_to_cart", status |-> 500]
                /\ SetThread(t, Idle)
                /\ UNCHANGED cart_items
           ELSE LET cart == IF me.cart_item # {}
                            THEN IncrementRow(cart_items, First(me.cart_item), me.quantity)
                            ELSE InsertRow(cart_items, me.user_id, me.product_id,
                                           me.quantity)
                IN  /\ \A c \in cart : c.id \in CartIdPool /\ c.quantity <= MaxCartQty
                    /\ cart_items' = cart
                    /\ SetThread(t, [me EXCEPT !.pc = "add_respond"])
                    /\ UNCHANGED response
        /\ UNCHANGED <<products, orders, order_items, seq_added>>

\* add_to_cart, lines 304-316: the cart is read again for the response
add_respond(t) ==
    /\ threads[t].pc = "add_respond"
    /\ response' = CartResponse("add_to_cart", threads[t].user_id, cart_items, products)
    /\ SetThread(t, Idle)
    /\ UNCHANGED <<products, orders, order_items, cart_items, seq_added>>

\* remove_from_cart, lines 341-343: the cart row is read
remove_read(t, user_id, product_id) ==
    LET found == Matching(cart_items, user_id, product_id)
    IN  /\ threads[t].pc = "idle"
        /\ IF found = {}
           THEN /\ response' = [op |-> "remove_from_cart", status |-> 404]
                /\ UNCHANGED threads
           ELSE /\ SetThread(t, [pc |-> "remove_commit", user_id |-> user_id,
                                 cart_item |-> {First(found)}])
                /\ UNCHANGED response
        /\ UNCHANGED <<products, orders, order_items, cart_items, seq_added>>

\* remove_from_cart, lines 345-360: the row of that id is deleted (a row
\* already gone is only a warning), the commit, and the cart read again
remove_commit(t) ==
    LET me   == threads[t]
        cart == DeleteRow(cart_items, First(me.cart_item))
    IN  /\ me.pc = "remove_commit"
        /\ cart_items' = cart
        /\ response' = CartResponse("remove_from_cart", me.user_id, cart, products)
        /\ SetThread(t, Idle)
        /\ UNCHANGED <<products, orders, order_items, seq_added>>

\* create_order, lines 205-214: the order row is inserted and committed
order_insert(t, data) ==
    /\ threads[t].pc = "idle"
    /\ IF data.user_id = "" \/ data.products = <<>>
       THEN /\ response' = [op |-> "create_order", status |-> 400]
            /\ UNCHANGED <<orders, threads>>
       ELSE /\ Len(orders) < MaxOrders
            /\ orders' = Append(orders, [user_id |-> data.user_id, status |-> "pending",
                                         total_price |-> 0])
            /\ SetThread(t, [pc |-> "order_items", order_id |-> Len(orders) + 1,
                             products |-> data.products])
            /\ UNCHANGED response
    /\ UNCHANGED <<products, order_items, cart_items, seq_added>>

\* create_order, lines 216-226: the items of the entries that resolve are
\* inserted and committed
order_items_commit(t) ==
    LET me == threads[t]
    IN  /\ me.pc = "order_items"
        /\ order_items' = order_items \o OrderItemsFor(me.order_id, me.products, products)
        /\ SetThread(t, [pc |-> "order_total", order_id |-> me.order_id])
        /\ UNCHANGED <<products, orders, cart_items, response, seq_added>>

\* create_order, lines 228-247: the commit expired the order, so its items and
\* their products are read again; an item whose product is gone by now raises
\* AttributeError and the order keeps total_price 0
order_total(t) ==
    LET me == threads[t]
        id == me.order_id
    IN  /\ me.pc = "order_total"
        /\ IF Dangling(ItemsOf(id, order_items), products)
           THEN /\ response' = [op |-> "create_order", status |-> 500]
                /\ UNCHANGED orders
           ELSE LET total == calculate_order_price(id, order_items, products)
                IN  /\ orders' = [orders EXCEPT ![id].total_price = total]
                    /\ response' = [op |-> "create_order", status |-> 201,
                                    order_id |-> id, user_id |-> orders[id].user_id,
                                    order_status |-> orders[id].status,
                                    total_price |-> total,
                                    products |-> OrderProducts(id, order_items, products)]
        /\ SetThread(t, Idle)
        /\ UNCHANGED <<products, order_items, cart_items, seq_added>>

CartThread ==
    \/ \E t \in Threads, u \in ThreadUsers, data \in CartBodies : add_read(t, u, data)
    \/ \E t \in Threads : add_commit(t)
    \/ \E t \in Threads : add_respond(t)
    \/ \E t \in Threads, u \in ThreadUsers, p \in ProductIdPool : remove_read(t, u, p)
    \/ \E t \in Threads : remove_commit(t)

OrderThread ==
    \/ \E t \in Threads, data \in OrderBodies : order_insert(t, data)
    \/ \E t \in Threads : order_items_commit(t)
    \/ \E t \in Threads : order_total(t)

\* product bodies that leave the price out
PlainProductBodies == [name : {"n"}]

\* the catalogue and the carts, requests interleaved
NextCartThreads == ProductRequest(PlainProductBodies) \/ CartThread

SpecCartThreads == Init /\ [][NextCartThreads]_vars

\* the catalogue and the orders, requests interleaved
NextOrderThreads == ProductRequest(ProductBodies) \/ OrderThread

SpecOrderThreads == Init /\ [][NextOrderThreads]_vars

(* ------------------------------- claims ------------------------------- *)

\* the rows of the cart other than those of the pair
OtherRows(cart, user_id, product_id) == cart \ Matching(cart, user_id, product_id)

\* the sum of price x quantity over the order_items rows i of an order
RECURSIVE LineSum(_, _, _)
LineSum(idx, items, prods) ==
    IF idx = {} THEN 0
    ELSE LET i == CHOOSE x \in idx : TRUE
         IN  prods[items[i].product_id].price * items[i].quantity
             + LineSum(idx \ {i}, items, prods)

OrderLines(order_id, items) == {i \in 1..Len(items) : items[i].order_id = order_id}

\* C1: one request at a time, no two cart_items rows ever share their
\* (user_id, product_id): an add on a pair that has a row inserts no second
\* row.
C1_CartUnique ==
    \A c1, c2 \in cart_items :
        (c1.user_id = c2.user_id /\ c1.product_id = c2.product_id) => c1 = c2

\* C1's case: an add answered 200 has raised a row to a quantity no single
\* insert gives, beside another row.
C1_Witness ==
    /\ response.op = "add_to_cart" /\ response.status = 200
    /\ \E c \in cart_items : c.quantity = 3
    /\ Cardinality(cart_items) = 2

\* C2: an add answered 200 leaves exactly one row of the pair, its quantity
\* the old quantity plus the requested one (the requested one alone, 1 when
\* left out, if the pair had no row), and changes no other row; and the row of
\* a pair that only adds answered 200 have touched since its insert holds the
\* sum of their quantities.
C2_AddAdditive ==
    [][\A u \in Users, data \in CartBodies :
          (response'.op = "add_to_cart" /\ response'.status = 200
             /\ add_to_cart(u, data)) =>
              LET p   == data.product_id
                  n   == Get(data, "quantity", 1)
                  old == Matching(cart_items, u, p)
                  new == Matching(cart_items', u, p)
              IN  /\ Cardinality(new) = 1
                  /\ \A r \in new :
                        r.quantity = IF old = {} THEN n ELSE First(old).quantity + n
                  /\ OtherRows(cart_items', u, p) = OtherRows(cart_items, u, p)
                  /\ \A h \in seq_added' :
                        \E r \in cart_items' :
                            /\ <<r.user_id, r.product_id>> = h.key
                            /\ r.quantity = h.sum]_vars

\* C2's case: a row inserted by an add of 1 (the quantity left out) and raised
\* by an add of 2 holds 3, beside the untouched row of the other user.
C2_Witness ==
    /\ response.op = "add_to_cart" /\ response.status = 200
    /\ \E h \in seq_added : h.key[1] = "u1" /\ h.sum = 3
    /\ \E c \in cart_items : c.user_id = "u1" /\ c.quantity = 3
    /\ \E c \in cart_items : c.user_id = "u2"

\* C3: a create_order answered 201 stores and returns as total_price the sum,
\* over the order_items rows of the new order, of the product's price times the
\* row's quantity.
C3_OrderTotal ==
    [][(response'.op = "create_order" /\ response'.status = 201) =>
          LET id == response'.order_id
          IN  /\ id = Len(orders) + 1 /\ id = Len(orders')
              /\ orders'[id].total_price = response'.total_price
              /\ response'.total_price
                   = LineSum(OrderLines(id, order_items'), order_items', products)]_vars

\* C3's case: an order of two items of one product with a total above 0.
C3_Witness ==
    /\ response.op = "create_order" /\ response.status = 201
    /\ Len(response.products) = 2
    /\ response.products[1].product_id = response.products[2].product_id
    /\ response.total_price > 0

\* the order items C4 asks for: entry by entry, one per entry whose product
\* exists, with the entry's quantity (1 when left out)
RECURSIVE Resolvable(_, _)
Resolvable(entries, prods) ==
    IF entries = <<>> THEN <<>>
    ELSE (IF Head(entries).product_id \in DOMAIN prods
          THEN <<[product_id |-> Head(entries).product_id,
                  quantity   |-> IF "quantity" \in DOMAIN Head(entries)
                                 THEN Head(entries).quantity ELSE 1]>>
          ELSE <<>>)
         \o Resolvable(Tail(entries), prods)

\* C4: a create_order with a user_id and a non-empty list is answered 201, and
\* the new order's items are one per entry whose product exists, in order, with
\* the entry's quantity; an entry whose product does not exist gets none.
C4_SilentSkip ==
    [][response'.op = "create_order" =>
          \A data \in OrderBodies :
              (data.user_id # "" /\ data.products # <<>> /\ create_order(data)) =>
                  LET its  == ItemsOf(Len(orders) + 1, order_items')
                      want == Resolvable(data.products, products)
                  IN  /\ response'.status = 201
                      /\ Len(order_items') = Len(order_items) + Len(want)
                      /\ Len(its) = Len(want)
                      /\ \A i \in 1..Len(want) :
                            /\ its[i].product_id = want[i].product_id
                            /\ its[i].quantity = want[i].quantity]_vars

\* C4's case: an order answered 201 that got no item, every entry skipped,
\* while a product exists.
C4_Witness ==
    /\ response.op = "create_order" /\ response.status = 201
    /\ ItemsOf(response.order_id, order_items) = <<>>
    /\ DOMAIN products # {}

\* C5: a remove on a pair with no row is answered 404 and changes no table; on
\* a pair with a row it deletes that one row and changes nothing else.
C5_RemoveFrame ==
    [][\A u \in Users, p \in ProductIdPool :
          (response'.op = "remove_from_cart" /\ remove_from_cart(u, p)) =>
              IF Matching(cart_items, u, p) = {}
              THEN /\ response'.status = 404
                   /\ UNCHANGED <<products, orders, order_items, cart_items>>
              ELSE /\ Cardinality(cart_items') = Cardinality(cart_items) - 1
                   /\ Matching(cart_items', u, p) = {}
                   /\ OtherRows(cart_items', u, p) = OtherRows(cart_items, u, p)
                   /\ UNCHANGED <<products, orders, order_items>>]_vars

\* C5's case: a remove answered 404 with rows in the cart table, a product and
\* an order stored.
C5_Witness ==
    /\ response.op = "remove_from_cart" /\ response.status = 404
    /\ Cardinality(cart_items) = 2
    /\ DOMAIN products # {}
    /\ orders # <<>>

\* C6: no order row is ever visible between two commits with an item of a
\* resolvable entry missing, or with total_price 0 while its items have a
\* price.
C6_AtomicOrder ==
    \A t \in Threads :
        /\ threads[t].pc = "order_items" =>
              OrderItemsFor(threads[t].order_id, threads[t].products, products) = <<>>
        /\ threads[t].pc = "order_total" =>
              LET id == threads[t].order_id
              IN  ~ /\ orders[id].total_price = 0
                    /\ ~ Dangling(ItemsOf(id, order_items), products)
                    /\ calculate_order_price(id, order_items, products) # 0

C8_GetCartSucceeds ==
    [][\A u \in Users :
          (response'.op = "get_cart" /\ get_cart(u)) =>
              LET rows == {c \in cart_items : c.user_id = u}
              IN  /\ response'.status = 200
                  /\ Len(response'.cart) = Cardinality(rows)
                  /\ response'.total_price
                       = LineSum({i \in 1..Len(response'.cart) : TRUE},
                                 [i \in 1..Len(response'.cart) |->
                                     [product_id |-> response'.cart[i].product_id,
                                      quantity   |-> response'.cart[i].quantity]],
                                 products)]_vars

\* C9: an add commits what it read: a thread that found a row writes the
\* quantity it loaded plus its own, whatever was committed since, and a thread
\* that found none inserts a row, whatever was inserted since.  So two adds on
\* one pair that both read before either commits lose an increment, or leave
\* two rows.
C9_AddRace ==
    [][\A t \in Threads :
          (threads[t].pc = "add_commit" /\ threads'[t].pc = "add_respond"
             /\ add_commit(t)) =>
              LET me == threads[t]
              IN  IF me.cart_item = {}
                  THEN Cardinality(Matching(cart_items', me.user_id, me.product_id))
                         = Cardinality(Matching(cart_items, me.user_id, me.product_id)) + 1
                  ELSE \A r \in me.cart_item : \A c \in cart_items' :
                          c.id = r.id => c.quantity = r.quantity + me.quantity]_vars

\* C9's case: both threads have committed an add on the row they both loaded,
\* and the row holds less than its loaded quantity plus both increments.
C9_Witness ==
    /\ threads[1].pc = "add_respond" /\ threads[2].pc = "add_respond"
    /\ threads[1].cart_item # {} /\ threads[1].cart_item = threads[2].cart_item
    /\ \A r \in threads[1].cart_item :
          \E c \in cart_items :
              /\ c.id = r.id
              /\ c.quantity < r.quantity + threads[1].quantity + threads[2].quantity

\* C9's other case: both threads found no row of the pair and both inserted.
C9_TwoRows ==
    /\ threads[1].pc = "add_respond" /\ threads[2].pc = "add_respond"
    /\ threads[1].cart_item = {} /\ threads[2].cart_item = {}
    /\ Cardinality(Matching(cart_items, threads[1].user_id, threads[1].product_id)) = 2

\* C10: every order_items row has a quantity of at least 1.
C10_QuantityPositive ==
    \A i \in 1..Len(order_items) : order_items[i].quantity >= 1

=============================================================================
